---- MODULE Spec2Model ----
(***************************************************************************)
(* Reset / power-up sequencer of the MIPS I6500 CPU wrapper                *)
(* (litex/soc/cores/cpu/i6500/core.py).                                    *)
(*                                                                         *)
(* The wrapper instantiates WaitTimer(128) and a two-state FSM             *)
(* (RST, PWR_UP) in the "sys" clock domain.  One step of the model is one  *)
(* rising edge of the sys clock: every synchronous register (the FSM state *)
(* and the timer count) is updated from the values the combinatorial logic *)
(* had just before the edge.  The inputs sampled at the edge are the sys   *)
(* clock-domain reset and the CPU-level reset signal.                      *)
(***************************************************************************)
EXTENDS Integers, Naturals, FiniteSets, Sequences, TLC

(* ---------------------------------------------------------------------- *)
(* Bounds of the exploration                                               *)
(* ---------------------------------------------------------------------- *)

\* the tick observers saturate here (must exceed the settling period)
MaxTicks == 132

\* number of ticks on which the sys reset may be asserted in one behaviour
MaxResets == 2

(* ---------------------------------------------------------------------- *)
(* Program constants and combinatorial logic                               *)
(* ---------------------------------------------------------------------- *)

TrstTime_short == 128 - 1

TrstTime_long == 128 + 1

\* trst_timer = WaitTimer(128)
TrstTime == 128

\* count = Signal(bits_for(t), reset=t): bits_for(128) = 8
CountWidth == 8

States == {"RST", "PWR_UP"}

ResetState_up == "PWR_UP"

\* FSM(reset_state="RST")
ResetState == "RST"

\* reset value of the timer's count register
CountReset == TrstTime

\* WaitTimer: self.comb += self.done.eq(count == 0)
done(c) == c = 0

\* WaitTimer: If(wait, If(~done, count.eq(count - 1))).Else(count.eq(count.reset))
WaitTimerNext(c, w) ==
    IF w
    THEN IF ~done(c) THEN (c - 1) % (2 ^ CountWidth) ELSE c
    ELSE CountReset

\* fsm.act("RST", trst_timer.wait.eq(1), ...); wait is 0 in every other state
wait(s) == s = "RST"

NextState_nodone(s, c) == IF s = "RST" THEN "PWR_UP" ELSE s

NextState_early(s, c) == IF s = "RST" /\ c <= 1 THEN "PWR_UP" ELSE s

NextState_drift(s, c) ==
    IF s = "RST"
    THEN IF done(c) THEN "PWR_UP" ELSE s
    ELSE IF c = CountReset THEN "RST" ELSE s

NextState_stuck(s, c) == s

\* fsm.act("RST", ..., If(trst_timer.done, NextState("PWR_UP")));
\* fsm.act("PWR_UP", ...) has no NextState
NextState(s, c) == IF s = "RST" /\ done(c) THEN "PWR_UP" ELSE s

cpc_reset_n_low(s) == 0

\* RST: self.si_cpc_reset_n.eq(0); PWR_UP: self.si_cpc_reset_n.eq(1)
cpc_reset_n(s) == IF s = "RST" THEN 0 ELSE 1

\* RST: self.si_cluster_pwr_on_n.eq(0); PWR_UP: self.si_cluster_pwr_on_n.eq(1)
cluster_pwr_on_n(s) == IF s = "RST" THEN 0 ELSE 1

fsm_reset_cpu(cr) == cr

\* ResetInserter()(FSM(...)): fsm.reset is never driven, so it stays 0
fsm_reset(cr) == FALSE

\* i_si_reset_n = ~ResetSignal("sys") & ~self.reset
reset_n(rst, cr) == IF ~rst /\ ~cr THEN 1 ELSE 0

Min(a, b) == IF a < b THEN a ELSE b

(* ---------------------------------------------------------------------- *)
(* State                                                                   *)
(* ---------------------------------------------------------------------- *)

VARIABLES
    state,      \* FSM state register
    count,      \* WaitTimer count register
    sys_rst,    \* ResetSignal("sys") sampled at the latest edge
    cpu_reset,  \* self.reset sampled at the latest edge
    pstate,     \* observer: FSM state before the latest edge
    pcount,     \* observer: timer count before the latest edge
    elapsed,    \* observer: edges since the latest edge with sys reset
    held,       \* observer: length of the latest run of reset-free edges
                \*           that each left both lines asserted
    nreset,     \* observer: edges with sys reset so far
    reentered   \* observer: some edge with sys reset was taken in PWR_UP

vars == <<state, count, sys_rst, cpu_reset, pstate, pcount,
          elapsed, held, nreset, reentered>>

\* outputs wired to the CPU instance
si_cpc_reset_n == cpc_reset_n(state)

si_cluster_pwr_on_n == cluster_pwr_on_n(state)

si_reset_n == reset_n(sys_rst, cpu_reset)

\* the specification's names for the same things
clusterResetAsserted == si_cpc_reset_n = 0

clusterPowerAsserted == si_cluster_pwr_on_n = 0

SettleCounter == TrstTime - count

pSettleCounter == TrstTime - pcount

TypeOK ==
    /\ state \in States
    /\ count \in 0..(2 ^ CountWidth - 1)
    /\ sys_rst \in BOOLEAN
    /\ cpu_reset \in BOOLEAN
    /\ pstate \in States
    /\ pcount \in 0..(2 ^ CountWidth - 1)
    /\ elapsed \in 0..MaxTicks
    /\ held \in 0..MaxTicks
    /\ nreset \in 0..MaxResets
    /\ reentered \in BOOLEAN

\* registers at their reset values, no edge taken yet
Init ==
    /\ state = ResetState
    /\ count = CountReset
    /\ sys_rst = FALSE
    /\ cpu_reset = FALSE
    /\ pstate = ResetState
    /\ pcount = CountReset
    /\ elapsed = 0
    /\ held = 0
    /\ nreset = 0
    /\ reentered = FALSE

(* ---------------------------------------------------------------------- *)
(* One rising edge of the sys clock                                        *)
(* ---------------------------------------------------------------------- *)

Tick(rst, cr) ==
    /\ state' = IF rst \/ fsm_reset(cr)
                THEN ResetState
                ELSE NextState(state, count)
    /\ count' = IF rst
                THEN CountReset
                ELSE WaitTimerNext(count, wait(state))
    /\ sys_rst' = rst
    /\ cpu_reset' = cr
    /\ pstate' = state
    /\ pcount' = count
    /\ elapsed' = IF rst THEN 0 ELSE Min(elapsed + 1, MaxTicks)
    /\ held' = IF rst
               THEN 0
               ELSE IF cpc_reset_n(state') = 0 /\ cluster_pwr_on_n(state') = 0
                    THEN Min(held + 1, MaxTicks)
                    ELSE held
    /\ nreset' = IF rst THEN nreset + 1 ELSE nreset
    /\ reentered' = (reentered \/ (rst /\ state = "PWR_UP"))

\* edge with neither reset asserted
TickRun == Tick(FALSE, FALSE)

\* edge with the CPU-level reset asserted and the sys reset released
TickCpuReset == Tick(FALSE, TRUE)

\* edge with the sys clock-domain reset asserted
TickSysReset ==
    /\ nreset < MaxResets
    /\ \E cr \in BOOLEAN : Tick(TRUE, cr)

Next ==
    \/ TickRun
    \/ TickCpuReset
    \/ TickSysReset

Spec == Init /\ [][Next]_vars

\* the clock keeps ticking; the sys reset is asserted at most MaxResets times
LiveSpec == Init /\ [][Next]_vars /\ WF_vars(TickRun \/ TickCpuReset)

(* ---------------------------------------------------------------------- *)
(* Properties                                                              *)
(* ---------------------------------------------------------------------- *)

BothAsserted == clusterResetAsserted /\ clusterPowerAsserted

BothReleased == ~clusterResetAsserted /\ ~clusterPowerAsserted

\* C1: from the freshly reset sequencer, with the sys reset never asserted,
\* both lines are asserted after each of ticks 1..128 and both are released
\* after tick 129 and after every later tick.
C1_HoldThenRelease ==
    nreset = 0 =>
        /\ (elapsed \in 1..128 => BothAsserted)
        /\ (elapsed >= 129 => BothReleased)

C1_Witness ==
    /\ nreset = 0
    /\ elapsed = 129
    /\ pstate = "RST"
    /\ BothReleased

\* C2 (as stated): once the 128th tick since the last reset completes, the
\* outputs are already the PWR_UP outputs.
C2_SameTickRelease ==
    (~sys_rst /\ elapsed = 128) => (state = "PWR_UP" /\ BothReleased)

\* C2 (amended): after the 128th reset-free tick the settle count has reached
\* 128 (the timer's done is high) but the state is still RST with both lines
\* asserted; the RST -> PWR_UP transition is taken by the 129th tick, after
\* which both lines are released.
C2_NextTickRelease ==
    /\ (~sys_rst /\ elapsed = 128) =>
           /\ state = "RST"
           /\ SettleCounter = 128
           /\ done(count)
           /\ BothAsserted
    /\ (~sys_rst /\ elapsed = 129) =>
           /\ state = "PWR_UP"
           /\ pstate = "RST"
           /\ pSettleCounter = 128
           /\ BothReleased

C2_Witness ==
    /\ nreset > 0
    /\ ~sys_rst
    /\ elapsed = 129
    /\ state = "PWR_UP"
    /\ pstate = "RST"

\* C3: whenever both lines are released, the latest run of consecutive ticks
\* on which the sys reset was false and both lines were asserted is at least
\* 128 ticks long, whatever resets came before (also one that interrupted a
\* count part-way).
C3_MinimumHold ==
    BothReleased => held >= 128

C3_Witness ==
    /\ BothReleased
    /\ nreset = MaxResets
    /\ reentered
    /\ held >= 128

\* C4: after any tick on which the sys reset was asserted the state is RST,
\* the timer is back at its start value (settle count 0) and both lines are
\* asserted, whatever the state and count were before the tick; so a reset
\* held on every tick never lets the sequencer reach PWR_UP.
C4_ResetWins ==
    sys_rst =>
        /\ state = "RST"
        /\ count = TrstTime
        /\ SettleCounter = 0
        /\ BothAsserted

\* the reset hit the very tick on which RST -> PWR_UP was about to be taken
C4_Witness ==
    /\ sys_rst
    /\ pstate = "RST"
    /\ done(pcount)
    /\ state = "RST"
    /\ count = TrstTime

\* C5: once the sys reset has been asserted on a tick taken in PWR_UP, the
\* settling period restarts from the beginning: both lines are asserted right
\* after the reset and after each of the next 128 reset-free ticks, the settle
\* count equals the number of reset-free ticks since the reset, and the lines
\* are released only after more than 128 such ticks.
C5_ResetRestartsSettling ==
    reentered =>
        /\ (elapsed <= 128 =>
               /\ state = "RST"
               /\ BothAsserted
               /\ SettleCounter = elapsed)
        /\ (BothReleased => elapsed > 128)

C5_Witness ==
    /\ reentered
    /\ ~sys_rst
    /\ elapsed = 1
    /\ pcount = TrstTime
    /\ BothAsserted

\* C6: the two lines always agree with each other and with the state: both
\* are 0 exactly in RST and both are 1 exactly in PWR_UP.
C6_OutputsFollowState ==
    /\ state \in States
    /\ (state = "RST" <=> (si_cpc_reset_n = 0 /\ si_cluster_pwr_on_n = 0))
    /\ (state = "PWR_UP" <=> (si_cpc_reset_n = 1 /\ si_cluster_pwr_on_n = 1))
    /\ (clusterResetAsserted <=> clusterPowerAsserted)
    /\ (clusterResetAsserted <=> state = "RST")

C6_Witness ==
    /\ state = "PWR_UP"
    /\ si_cpc_reset_n = 1
    /\ si_cluster_pwr_on_n = 1

\* C7: a tick taken in PWR_UP with the sys reset false leaves the state at
\* PWR_UP with both lines released, and the timer sits at its reload value
\* (it neither counts, wraps nor overflows).
C7_PoweredUpAbsorbing ==
    (pstate = "PWR_UP" /\ ~sys_rst) =>
        /\ state = "PWR_UP"
        /\ BothReleased
        /\ count = TrstTime

C7_Witness ==
    /\ pstate = "PWR_UP"
    /\ state = "PWR_UP"
    /\ ~sys_rst
    /\ elapsed = MaxTicks

\* C8: if the clock keeps ticking and the sys reset is asserted only finitely
\* often, the sequencer eventually reaches PWR_UP and stays there with both
\* lines released.
C8_EventuallyPoweredUp ==
    <>[](state = "PWR_UP" /\ BothReleased)

C8_Witness ==
    /\ nreset = MaxResets
    /\ state = "PWR_UP"
    /\ BothReleased

\* C9: the settle count (128 minus the timer's remaining count) always lies
\* in 0..128; a tick raises it only by exactly one and only when it was taken
\* in RST with the sys reset false; a tick taken in PWR_UP never raises it.
C9_SettleCounterRange ==
    /\ SettleCounter \in 0..128
    /\ (SettleCounter > pSettleCounter =>
           /\ SettleCounter = pSettleCounter + 1
           /\ pstate = "RST"
           /\ ~sys_rst)
    /\ (pstate = "PWR_UP" => SettleCounter <= pSettleCounter)

C9_Witness ==
    /\ SettleCounter = 128
    /\ pSettleCounter = 127
    /\ pstate = "RST"
    /\ ~sys_rst

\* C10: a tick on which only the CPU-level reset is asserted drives si_reset_n
\* low but updates the FSM state and the timer exactly as a tick without it;
\* taken in PWR_UP it leaves the state at PWR_UP with si_cpc_reset_n and
\* si_cluster_pwr_on_n high and does not restart the timer's countdown.
C10_CpuResetLeavesSequencer ==
    (cpu_reset /\ ~sys_rst) =>
        /\ si_reset_n = 0
        /\ state = (IF pstate = "RST" /\ pcount = 0 THEN "PWR_UP" ELSE pstate)
        /\ count = (IF pstate = "RST"
                    THEN (IF pcount = 0 THEN 0 ELSE pcount - 1)
                    ELSE TrstTime)
        /\ (pstate = "PWR_UP" =>
               /\ state = "PWR_UP"
               /\ si_cpc_reset_n = 1
               /\ si_cluster_pwr_on_n = 1)

C10_Witness ==
    /\ cpu_reset
    /\ ~sys_rst
    /\ si_reset_n = 0
    /\ pstate = "PWR_UP"
    /\ state = "PWR_UP"

====
